---- MODULE Spec2Model ----
(***************************************************************************)
(* State-machine model of the flappy-bird clone (src/src/main.rs): the     *)
(* deferred loading gate (post_loading), the kinematic integrator          *)
(* (apply_acceleration, apply_velocity), the input mapper (jump), the      *)
(* orientation mapper (rotate) and the obstacle recycler (reuse_pipes),    *)
(* scheduled once per frame under the ordering main() declares.            *)
(*                                                                         *)
(* Arithmetic is exact.  A frame's dt is n / DtDen seconds and the state   *)
(* stores the integer n; a velocity is stored multiplied by DtDen and a    *)
(* position multiplied by DtDen^2, so that                                 *)
(*     velocity + acceleration * dt   is   vel + acc * n                   *)
(*     position + velocity * dt       is   pos + vel * n                   *)
(* with no rounding.  f32 rounding is not modelled.                        *)
(***************************************************************************)
EXTENDS Integers, Sequences, FiniteSets, TLC

VARIABLES
    phase,        \* "boot" before startup ran, "run", or "aborted" (a system panicked)
    world,        \* entity id -> [tag, pos, vel, acc, angle, visual]
    bundles,      \* LoadingAssets: the ordered pending list of LoadingBundle
    invoked,      \* the on_load calls made so far, in call order: [id, handles, tick]
    loadState,    \* asset_server.get_load_state, per image
    done,         \* the systems that have already run in the current frame
    dt,           \* time.delta_seconds() of the current frame, in 1/DtDen s
    pressed,      \* keyboard_input.pressed(KeyCode::Space) in the current frame
    ticks,        \* frames begun so far
    elapsed,      \* history: the sum of the dt of the frames begun so far
    start,        \* history: world at the beginning of the current frame
    recycled,     \* history: pipes repositioned by reuse_pipes in this frame
    everRecycled, \* history: pipes repositioned by reuse_pipes at least once
    passStart,    \* history: world when the last reuse_pipes pass began
    passEnd,      \* history: world when the last reuse_pipes pass ended
    iterOrder     \* history: the query iteration order of the last reuse_pipes pass

vars == <<phase, world, bundles, invoked, loadState, done, dt, pressed, ticks,
          elapsed, start, recycled, everRecycled, passStart, passEnd, iterOrder>>

-----------------------------------------------------------------------------
(* Bounds of the model *)

MaxTicks == 2
DtDen == 10
MaxShuffle == 3
MaxBundles == 3

\* the frame durations the clock may report, in 1/DtDen s (0 is allowed)
DtSet == {0, 1, 4, 90, 350}

-----------------------------------------------------------------------------
(* Program constants, main.rs:6-13 *)

UP_SPEED == 500
GRAVITY == -2000
ANGLE_AMPLITUDE_NUM == 8
ANGLE_AMPLITUDE_DEN == 10
PIPE_START_SPEED == 100
PIPE_MAX_SPEED == 1000
PIPE_TIME_TO_MAX == 60
PIPE_GAP == 500
WINDOW_WIDTH == 1280
BORDER_MARGIN == 100
NumPipes == 10
FRAC_PI_2_MICRO == 1570796

VelScale == DtDen
PosScale == DtDen * DtDen
Micro == 10 ^ 6

-----------------------------------------------------------------------------
(* Vec3 *)

Vec3(x, y, z) == [x |-> x, y |-> y, z |-> z]
ZERO == Vec3(0, 0, 0)
VAdd(a, b) == Vec3(a.x + b.x, a.y + b.y, a.z + b.z)
VScale(a, k) == Vec3(a.x * k, a.y * k, a.z * k)

-----------------------------------------------------------------------------
(* Entities *)

PlayerId == 0
PipeIds == 1 .. NumPipes

Players(w) == {e \in DOMAIN w : w[e].tag = "Player"}
Pipes(w) == {e \in DOMAIN w : w[e].tag = "Pipe"}

Images == {"bird", "pipe", "pipe_piece"}
LoadStates == {"Loading", "Loaded", "Failed"}

right_border == (WINDOW_WIDTH \div 2 + BORDER_MARGIN) * PosScale
left_border == (0 - (WINDOW_WIDTH \div 2) - BORDER_MARGIN) * PosScale
Gap == PIPE_GAP * PosScale

\* PlayerBundle as startup spawns it
NewPlayer ==
    [tag |-> "Player", pos |-> ZERO, vel |-> ZERO,
     acc |-> Vec3(0, GRAVITY, 0), angle |-> 0, visual |-> {"bird"}]

\* faulty variant: every pipe is spawned with a speed of its own
NewPipe_OwnSpeed(x, y) ==
    [tag |-> "Pipe", pos |-> Vec3(x, y, 0),
     vel |-> Vec3((0 - PIPE_START_SPEED) * VelScale - y, 0, 0),
     acc |-> Vec3(0 - ((PIPE_MAX_SPEED - PIPE_START_SPEED) \div PIPE_TIME_TO_MAX), 0, 0),
     angle |-> 0, visual |-> {"pipe", "pipe_piece"}]

\* PipeBundle as spawn_pipe spawns it at x, with the drawn vertical offset y
NewPipe(x, y) ==
    [tag |-> "Pipe", pos |-> Vec3(x, y, 0),
     vel |-> Vec3((0 - PIPE_START_SPEED) * VelScale, 0, 0),
     acc |-> Vec3(0 - ((PIPE_MAX_SPEED - PIPE_START_SPEED) \div PIPE_TIME_TO_MAX), 0, 0),
     angle |-> 0, visual |-> {"pipe", "pipe_piece"}]

\* the outcome of the ten rng.gen() draws (each in [0, 1)) that the model
\* explores: ten different offsets
RandomYs ==
    { [i \in PipeIds |-> ((i * 7) % NumPipes) * (PosScale \div NumPipes)] }

\* faulty variant: the spawn loop starts at i = 1 and spawns nine pipes
StartupWorld_Short(ys) ==
    [e \in {PlayerId} \cup (PipeIds \ {1}) |->
        IF e = PlayerId THEN NewPlayer
        ELSE NewPipe(right_border + (e - 1) * Gap, ys[e])]

StartupWorld(ys) ==
    [e \in {PlayerId} \cup PipeIds |->
        IF e = PlayerId THEN NewPlayer
        ELSE NewPipe(right_border + (e - 1) * Gap, ys[e])]

-----------------------------------------------------------------------------
(* The schedule of main(): every system runs once per frame; After[s] are  *)
(* the systems that must have run before s.                                 *)

Systems ==
    {"post_loading", "jump", "apply_acceleration", "apply_velocity", "rotate", "reuse_pipes"}

\* faulty variant: apply_velocity is not ordered after apply_acceleration
After_VelocityFree ==
    [s \in Systems |->
        CASE s = "apply_acceleration" -> {"jump"}
          [] s = "rotate" -> {"apply_acceleration"}
          [] OTHER -> {}]

\* faulty variant: rotate is not ordered after apply_acceleration
After_RotateFree ==
    [s \in Systems |->
        CASE s = "apply_acceleration" -> {"jump"}
          [] s = "apply_velocity" -> {"apply_acceleration"}
          [] OTHER -> {}]

\* faulty variant: apply_acceleration is not ordered after jump
After_JumpFree ==
    [s \in Systems |->
        CASE s = "apply_velocity" -> {"apply_acceleration"}
          [] s = "rotate" -> {"apply_acceleration"}
          [] OTHER -> {}]

After ==
    [s \in Systems |->
        CASE s = "apply_acceleration" -> {"jump"}
          [] s = "apply_velocity" -> {"apply_acceleration"}
          [] s = "rotate" -> {"apply_acceleration"}
          [] OTHER -> {}]

CanRun(s) == phase = "run" /\ s \notin done /\ After[s] \subseteq done

Ran(s) == done' = done \cup {s}

-----------------------------------------------------------------------------
(* Deferred loading gate: post_loading, main.rs:67-87 *)

\* faulty variant: any terminal status (Loaded or Failed) counts as ready
AllLoaded_Terminal(b, ls) == \A h \in b.handles : ls[h] # "Loading"

\* bundles[i].handles.iter().all(|h| matches!(get_load_state(h), Loaded))
AllLoaded(b, ls) == \A h \in b.handles : ls[h] = "Loaded"

\* Vec::remove(i), 1-based
RemoveAt(s, i) == SubSeq(s, 1, i - 1) \o SubSeq(s, i + 1, Len(s))

\* (bundle.on_load)(bundle.handles, &mut commands), recorded with the frame number
OnLoad(b, t) == [id |-> b.id, handles |-> b.handles, tick |-> t]

\* faulty variant: a ready bundle is called but left in the list
RECURSIVE PostLoadingLoop_NoRemove(_, _, _, _, _)
PostLoadingLoop_NoRemove(i, bs, log, ls, t) ==
    IF i <= Len(bs)
    THEN IF \A h \in bs[i].handles : ls[h] = "Loaded"
         THEN PostLoadingLoop_NoRemove(i + 1, bs, Append(log, OnLoad(bs[i], t)), ls, t)
         ELSE PostLoadingLoop_NoRemove(i + 1, bs, log, ls, t)
    ELSE [bundles |-> bs, invoked |-> log]

\* faulty variant: the index advances after a removal too
RECURSIVE PostLoadingLoop_Skip(_, _, _, _, _)
PostLoadingLoop_Skip(i, bs, log, ls, t) ==
    IF i <= Len(bs)
    THEN IF \A h \in bs[i].handles : ls[h] = "Loaded"
         THEN PostLoadingLoop_Skip(i + 1, SubSeq(bs, 1, i - 1) \o SubSeq(bs, i + 1, Len(bs)),
                                   Append(log, OnLoad(bs[i], t)), ls, t)
         ELSE PostLoadingLoop_Skip(i + 1, bs, log, ls, t)
    ELSE [bundles |-> bs, invoked |-> log]

\* the while loop: i is the (1-based) index, bs the list, log the on_load calls
RECURSIVE PostLoadingLoop(_, _, _, _, _)
PostLoadingLoop(i, bs, log, ls, t) ==
    IF i <= Len(bs)
    THEN IF AllLoaded(bs[i], ls)
         THEN PostLoadingLoop(i, RemoveAt(bs, i), Append(log, OnLoad(bs[i], t)), ls, t)
         ELSE PostLoadingLoop(i + 1, bs, log, ls, t)
    ELSE [bundles |-> bs, invoked |-> log]

PostLoading ==
    /\ CanRun("post_loading")
    /\ LET r == PostLoadingLoop(1, bundles, invoked, loadState, ticks)
       IN  /\ bundles' = r.bundles
           /\ invoked' = r.invoked
    /\ Ran("post_loading")
    /\ UNCHANGED <<phase, world, loadState, dt, pressed, ticks, elapsed, start,
                   recycled, everRecycled, passStart, passEnd, iterOrder>>

\* the asset server (a collaborator) changes the status of one image
SetLoadState ==
    /\ phase = "run"
    /\ \E h \in Images, s \in LoadStates :
          /\ s # loadState[h]
          /\ loadState' = [loadState EXCEPT ![h] = s]
    /\ UNCHANGED <<phase, world, bundles, invoked, done, dt, pressed, ticks, elapsed,
                   start, recycled, everRecycled, passStart, passEnd, iterOrder>>

-----------------------------------------------------------------------------
(* Input mapper: jump, main.rs:187-192 *)

\* faulty variant: the impulse is added to the vertical velocity
JumpVelocity_Add(m) == [m EXCEPT !.vel.y = @ + UP_SPEED * VelScale]

\* movable.velocity = Vec3::Y * UP_SPEED
JumpVelocity(m) == [m EXCEPT !.vel = VScale(Vec3(0, 1, 0), UP_SPEED * VelScale)]

Jump ==
    /\ CanRun("jump")
    /\ IF pressed
       THEN IF Cardinality(Players(world)) = 1
            THEN /\ world' = [e \in DOMAIN world |->
                                IF e \in Players(world) THEN JumpVelocity(world[e])
                                ELSE world[e]]
                 /\ phase' = phase
            ELSE \* query.single_mut() panics
                 /\ phase' = "aborted"
                 /\ world' = world
       ELSE UNCHANGED <<phase, world>>
    /\ Ran("jump")
    /\ UNCHANGED <<bundles, invoked, loadState, dt, pressed, ticks, elapsed, start,
                   recycled, everRecycled, passStart, passEnd, iterOrder>>

-----------------------------------------------------------------------------
(* Movement integrator: apply_acceleration, apply_velocity, main.rs:203-215 *)

\* faulty variant: the acceleration is consumed by the step that applies it
Accelerate_Clear(m, n) ==
    [m EXCEPT !.vel = VAdd(m.vel, VScale(m.acc, n)), !.acc = ZERO]

\* faulty variant: the speed along x is capped at PIPE_MAX_SPEED
Accelerate_Capped(m, n) ==
    [m EXCEPT !.vel = [VAdd(m.vel, VScale(m.acc, n)) EXCEPT
                          !.x = IF @ < (0 - PIPE_MAX_SPEED) * VelScale
                                THEN (0 - PIPE_MAX_SPEED) * VelScale ELSE @]]

\* movable.velocity = movable.velocity + movable.acceleration * dt
Accelerate(m, n) == [m EXCEPT !.vel = VAdd(m.vel, VScale(m.acc, n))]

\* transform.translation += movable.velocity * dt
Move(m, n) == [m EXCEPT !.pos = VAdd(m.pos, VScale(m.vel, n))]

ApplyAcceleration ==
    /\ CanRun("apply_acceleration")
    /\ world' = [e \in DOMAIN world |-> Accelerate(world[e], dt)]
    /\ Ran("apply_acceleration")
    /\ UNCHANGED <<phase, bundles, invoked, loadState, dt, pressed, ticks, elapsed,
                   start, recycled, everRecycled, passStart, passEnd, iterOrder>>

ApplyVelocity ==
    /\ CanRun("apply_velocity")
    /\ world' = [e \in DOMAIN world |-> Move(world[e], dt)]
    /\ Ran("apply_velocity")
    /\ UNCHANGED <<phase, bundles, invoked, loadState, dt, pressed, ticks, elapsed,
                   start, recycled, everRecycled, passStart, passEnd, iterOrder>>

-----------------------------------------------------------------------------
(* Orientation mapper: rotate, main.rs:194-201.  Angles are in micro-radians. *)

Clamp(v, lo, hi) == IF v < lo THEN lo ELSE IF v > hi THEN hi ELSE v

\* micro-radians of tilt per unit of stored vertical velocity:
\* ANGLE_AMPLITUDE / UP_SPEED, which is the integer 160 for DtDen = 10
TiltPerVel == (ANGLE_AMPLITUDE_NUM * Micro) \div (UP_SPEED * VelScale * ANGLE_AMPLITUDE_DEN)

\* ((movable.velocity.y / UP_SPEED) * ANGLE_AMPLITUDE).clamp(-FRAC_PI_2, FRAC_PI_2)
TiltAngle(m) == Clamp(m.vel.y * TiltPerVel, 0 - FRAC_PI_2_MICRO, FRAC_PI_2_MICRO)

\* for (mut transform, movable) in &mut query: no cardinality requirement
Rotate ==
    /\ CanRun("rotate")
    /\ world' = [e \in DOMAIN world |->
                    IF e \in Players(world)
                    THEN [world[e] EXCEPT !.angle = TiltAngle(world[e])]
                    ELSE world[e]]
    /\ Ran("rotate")
    /\ UNCHANGED <<phase, bundles, invoked, loadState, dt, pressed, ticks, elapsed,
                   start, recycled, everRecycled, passStart, passEnd, iterOrder>>

-----------------------------------------------------------------------------
(* Obstacle recycler: reuse_pipes, main.rs:217-231 *)

Crossed(w) == {e \in Pipes(w) : w[e].pos.x < left_border}

RECURSIVE Ascending(_)
Ascending(S) ==
    IF S = {} THEN <<>>
    ELSE LET m == CHOOSE a \in S : \A b \in S : a <= b
         IN  <<m>> \o Ascending(S \ {m})

Reverse(s) == [i \in 1 .. Len(s) |-> s[Len(s) + 1 - i]]

RECURSIVE Perms(_)
Perms(S) ==
    IF S = {} THEN {<<>>}
    ELSE UNION {{<<a>> \o p : p \in Perms(S \ {a})} : a \in S}

\* The orders in which the query may yield the pipes.  bevy leaves the order
\* unspecified.  Only the relative order of the pipes left of the border
\* decides the result: every order of them is explored when they are at most
\* MaxShuffle, spawn order and its reverse otherwise.
IterOrders(w) ==
    IF Cardinality(Crossed(w)) <= MaxShuffle
    THEN {p \o Ascending(Pipes(w) \ Crossed(w)) : p \in Perms(Crossed(w))}
    ELSE {Ascending(Pipes(w)), Reverse(Ascending(Pipes(w)))}

\* query.iter().map(|x| x.translation).max_by(|t1, t2| t1.x.partial_cmp(&t2.x)):
\* the last of the maximal elements, in iteration order
RECURSIVE MaxByX(_, _, _, _)
MaxByX(w, order, i, best) ==
    IF i > Len(order) THEN best
    ELSE MaxByX(w, order, i + 1,
                IF w[order[i]].pos.x >= best.x THEN w[order[i]].pos ELSE best)

\* faulty variant: the first pipe of the query is taken for the farthest
FartherPosition_First(w, order) == w[order[1]].pos

FartherPosition(w, order) == MaxByX(w, order, 2, w[order[1]].pos)

\* transform.translation = farther_position; transform.translation.x += PIPE_GAP
Reposition(farther_position) == [farther_position EXCEPT !.x = @ + Gap]

\* faulty variant: farther_position is not updated after a pipe is repositioned
RECURSIVE ReuseLoop_NoTrack(_, _, _, _)
ReuseLoop_NoTrack(w, order, i, far) ==
    IF i > Len(order) THEN w
    ELSE IF w[order[i]].pos.x < left_border
         THEN ReuseLoop_NoTrack([w EXCEPT ![order[i]].pos = [far EXCEPT !.x = @ + Gap]],
                                order, i + 1, far)
         ELSE ReuseLoop_NoTrack(w, order, i + 1, far)

\* faulty variant: a pipe exactly on the left border is repositioned too
RECURSIVE ReuseLoop_Inclusive(_, _, _, _)
ReuseLoop_Inclusive(w, order, i, far) ==
    IF i > Len(order) THEN w
    ELSE IF w[order[i]].pos.x <= left_border
         THEN ReuseLoop_Inclusive([w EXCEPT ![order[i]].pos = [far EXCEPT !.x = @ + Gap]],
                                  order, i + 1, [far EXCEPT !.x = @ + Gap])
         ELSE ReuseLoop_Inclusive(w, order, i + 1, far)

\* faulty variant: a repositioned pipe restarts at PIPE_START_SPEED
RECURSIVE ReuseLoop_Reset(_, _, _, _)
ReuseLoop_Reset(w, order, i, far) ==
    IF i > Len(order) THEN w
    ELSE IF w[order[i]].pos.x < left_border
         THEN ReuseLoop_Reset(
                  [w EXCEPT ![order[i]].pos = [far EXCEPT !.x = @ + Gap],
                            ![order[i]].vel = Vec3((0 - PIPE_START_SPEED) * VelScale, 0, 0)],
                  order, i + 1, [far EXCEPT !.x = @ + Gap])
         ELSE ReuseLoop_Reset(w, order, i + 1, far)

\* faulty variant: only the x of a repositioned pipe is replaced
RECURSIVE ReuseLoop_XOnly(_, _, _, _)
ReuseLoop_XOnly(w, order, i, far) ==
    IF i > Len(order) THEN w
    ELSE IF w[order[i]].pos.x < left_border
         THEN ReuseLoop_XOnly([w EXCEPT ![order[i]].pos.x = far.x + Gap],
                              order, i + 1, [far EXCEPT !.x = @ + Gap])
         ELSE ReuseLoop_XOnly(w, order, i + 1, far)

\* the for loop: far is the local farther_position
RECURSIVE ReuseLoop(_, _, _, _)
ReuseLoop(w, order, i, far) ==
    IF i > Len(order) THEN w
    ELSE IF w[order[i]].pos.x < left_border
         THEN ReuseLoop([w EXCEPT ![order[i]].pos = Reposition(far)],
                        order, i + 1, Reposition(far))
         ELSE ReuseLoop(w, order, i + 1, far)

ReusePipesPass(w, order) == ReuseLoop(w, order, 1, FartherPosition(w, order))

ReusePipes ==
    /\ CanRun("reuse_pipes")
    /\ IF Pipes(world) = {}
       THEN \* max_by(..) is None and unwrap() panics
            /\ phase' = "aborted"
            /\ UNCHANGED <<world, recycled, everRecycled, passStart, passEnd,
                           iterOrder>>
       ELSE /\ phase' = phase
            /\ \E order \in IterOrders(world) :
                  /\ world' = ReusePipesPass(world, order)
                  /\ iterOrder' = order
            /\ passStart' = world
            /\ passEnd' = world'
            /\ recycled' = recycled \cup Crossed(world)
            /\ everRecycled' = everRecycled \cup Crossed(world)
    /\ Ran("reuse_pipes")
    /\ UNCHANGED <<bundles, invoked, loadState, dt, pressed, ticks, elapsed, start>>

-----------------------------------------------------------------------------
(* Bootstrap and the frame loop: main, main.rs:233-263 *)

\* App::new() .. init_resource::<LoadingAssets>(): nothing spawned, nothing pending
Init ==
    /\ phase = "boot"
    /\ world = <<>>
    /\ bundles = <<>>
    /\ invoked = <<>>
    /\ loadState = [h \in Images |-> "Loading"]
    /\ done = Systems
    /\ dt = 0
    /\ pressed = FALSE
    /\ ticks = 0
    /\ elapsed = 0
    /\ start = <<>>
    /\ recycled = {}
    /\ everRecycled = {}
    /\ passStart = <<>>
    /\ passEnd = <<>>
    /\ iterOrder = <<>>

\* startup, main.rs:89-185: spawns the player and the ten pipes with their
\* sprites; pushes nothing to LoadingAssets
Startup ==
    /\ phase = "boot"
    /\ phase' = "run"
    /\ \E ys \in RandomYs : world' = StartupWorld(ys)
    /\ start' = world'
    /\ passStart' = world'
    /\ passEnd' = world'
    /\ UNCHANGED <<bundles, invoked, loadState, done, dt, pressed, ticks, elapsed,
                   recycled, everRecycled, iterOrder>>

\* the runner starts the next frame once every system of the frame has run
BeginFrame ==
    /\ phase = "run"
    /\ done = Systems
    /\ ticks < MaxTicks
    /\ \E n \in DtSet, key \in BOOLEAN :
          /\ dt' = n
          /\ elapsed' = elapsed + n
          /\ pressed' = key
    /\ done' = {}
    /\ ticks' = ticks + 1
    /\ start' = world
    /\ recycled' = {}
    /\ UNCHANGED <<phase, world, bundles, invoked, loadState, everRecycled, passStart,
                   passEnd, iterOrder>>

\* The systems of a frame.  The asset server's status changes (SetLoadState)
\* are read by post_loading alone, whose list is empty in the program, and are
\* written by no system: they are explored in SpecLoad and SpecGate.
Frame ==
    \/ BeginFrame
    \/ PostLoading
    \/ Jump
    \/ ApplyAcceleration
    \/ ApplyVelocity
    \/ Rotate
    \/ ReusePipes

Next == Startup \/ Frame

Spec == Init /\ [][Next]_vars

-----------------------------------------------------------------------------
(* The loading gate on its own.  Startup pushes no bundle, so in Spec the   *)
(* pending list is always empty and post_loading does nothing.  The gate is *)
(* an operation on any pending list: SpecGate draws the list from a bounded *)
(* set and runs one post_loading pass per frame while the asset server      *)
(* changes statuses at any time.  The other systems neither read nor write  *)
(* bundles, invoked and loadState; they are not scheduled here.             *)

GateImages == {"bird", "pipe"}

BundleLists ==
    UNION { [1 .. n -> SUBSET GateImages] : n \in 0 .. MaxBundles }

\* a frame in which post_loading is the only system still to run
GateFrame ==
    /\ phase = "run"
    /\ "post_loading" \in done
    /\ ticks < MaxTicks
    /\ done' = done \ {"post_loading"}
    /\ ticks' = ticks + 1
    /\ elapsed' = elapsed + dt
    /\ UNCHANGED <<phase, world, bundles, invoked, loadState, dt, pressed, start,
                   recycled, everRecycled, passStart, passEnd, iterOrder>>

InitGate ==
    /\ phase = "run"
    /\ \E ys \in RandomYs : world = StartupWorld(ys)
    /\ \E hs \in BundleLists :
          bundles = [i \in 1 .. Len(hs) |-> [id |-> i, handles |-> hs[i]]]
    /\ invoked = <<>>
    /\ loadState = [h \in Images |-> "Loading"]
    /\ done = Systems
    /\ dt = 0
    /\ pressed = FALSE
    /\ ticks = 0
    /\ elapsed = 0
    /\ start = world
    /\ recycled = {}
    /\ everRecycled = {}
    /\ passStart = world
    /\ passEnd = world
    /\ iterOrder = <<>>

NextGate == GateFrame \/ PostLoading \/ SetLoadState

SpecGate == InitGate /\ [][NextGate]_vars

\* the program from boot, restricted to bootstrap, the gate and the asset server
NextLoad == Startup \/ GateFrame \/ PostLoading \/ SetLoadState

SpecLoad == Init /\ [][NextLoad]_vars

-----------------------------------------------------------------------------
(* The systems on worlds other than the one startup builds: no player, one  *)
(* player with any velocity, and several players over a pool that has       *)
(* travelled until one pipe lies exactly on the left border.                 *)

SecondPlayerId == NumPipes + 1
ThirdPlayerId == NumPipes + 2

OpsVelocity == Vec3(30 * VelScale, (0 - 300) * VelScale, 7 * VelScale)

\* vertical velocities ten times UP_SPEED, upwards and downwards
FastUp == Vec3(0, 10 * UP_SPEED * VelScale, 0)
FastDown == Vec3(0, (0 - 10) * UP_SPEED * VelScale, 0)

\* the pool with its first pipe one gap left of left_border and its second
\* pipe exactly on it
BorderPool(w) ==
    [e \in PipeIds |-> [w[e] EXCEPT !.pos.x = left_border + (e - 2) * Gap]]

OpsWorlds ==
    LET w == StartupWorld(CHOOSE ys \in RandomYs : TRUE)
        p == [NewPlayer EXCEPT !.vel = OpsVelocity]
        b == BorderPool(w)
    IN  { [e \in PipeIds |-> w[e]],
          [e \in DOMAIN w |-> IF e = PlayerId THEN p ELSE w[e]],
          [e \in DOMAIN w \cup {SecondPlayerId, ThirdPlayerId} |->
              CASE e = PlayerId -> p
                [] e = SecondPlayerId -> [NewPlayer EXCEPT !.vel = FastUp]
                [] e = ThirdPlayerId -> [NewPlayer EXCEPT !.vel = FastDown]
                [] OTHER -> b[e]] }

InitOps ==
    /\ phase = "run"
    /\ world \in OpsWorlds
    /\ bundles = <<>>
    /\ invoked = <<>>
    /\ loadState = [h \in Images |-> "Loading"]
    /\ done = Systems
    /\ dt = 0
    /\ pressed = FALSE
    /\ ticks = 0
    /\ elapsed = 0
    /\ start = world
    /\ recycled = {}
    /\ everRecycled = {}
    /\ passStart = world
    /\ passEnd = world
    /\ iterOrder = <<>>

SpecOps == InitOps /\ [][Frame]_vars

-----------------------------------------------------------------------------
(* Properties *)

\* system s runs in this step
RunsNow(s) == s \notin done /\ s \in done'

\* the number of on_load calls made for bundle b
Calls(log, b) == Cardinality({i \in 1 .. Len(log) : log[i].id = b})

IsPending(bs, b) == \E i \in 1 .. Len(bs) : bs[i].id = b

\* every handle of pending bundle b reports Loaded
ReadyNow(bs, b, ls) ==
    \E i \in 1 .. Len(bs) :
        bs[i].id = b /\ \A h \in bs[i].handles : ls[h] = "Loaded"

BundleIds == 1 .. MaxBundles

\* C1 (loading gate single-fire): for every pending bundle, over any sequence
\* of frames and status changes, on_load is called at most once; it is called
\* in exactly the post_loading passes that find the bundle pending with all its
\* handles Loaded (hence in the first such pass), the bundle leaves the pending
\* list in that pass, and a bundle that was called is never pending again.
C1_SingleFire ==
    [][\A b \in BundleIds :
          /\ Calls(invoked', b) <= 1
          /\ IF RunsNow("post_loading") /\ ReadyNow(bundles, b, loadState)
             THEN Calls(invoked', b) = Calls(invoked, b) + 1 /\ ~IsPending(bundles', b)
             ELSE Calls(invoked', b) = Calls(invoked, b)
          /\ Calls(invoked, b) >= 1 => ~IsPending(bundles', b)]_vars

\* a two-handle bundle was called in the pass of the second frame (so it was not
\* ready in the pass of the first) and is no longer pending
C1_Witness ==
    \E i \in 1 .. Len(invoked) :
        /\ invoked[i].handles = {"bird", "pipe"}
        /\ invoked[i].tick = 2
        /\ ~IsPending(bundles, invoked[i].id)
        /\ Calls(invoked, invoked[i].id) = 1

\* C2 (loading gate never-fire): in every step, a pending bundle with a handle
\* that does not report Loaded (pending or failed) stays in the list and gets no
\* on_load call; only a ready bundle ever leaves the list (no timeout, no
\* cancellation).  A bundle with a handle that never reports Loaded is thus
\* never called and pending after every frame.
C2_NeverFire ==
    [][\A b \in BundleIds :
          (IsPending(bundles, b) /\ ~ReadyNow(bundles, b, loadState))
              => (IsPending(bundles', b) /\ Calls(invoked', b) = Calls(invoked, b))]_vars

\* after the passes of two frames, a bundle whose one handle is Loaded and whose
\* other handle has failed is still pending and was never called
C2_Witness ==
    /\ ticks >= 2
    /\ "post_loading" \in done
    /\ \E i \in 1 .. Len(bundles) :
          /\ bundles[i].handles = {"bird", "pipe"}
          /\ loadState["bird"] = "Loaded"
          /\ loadState["pipe"] = "Failed"
          /\ Calls(invoked, bundles[i].id) = 0

PipeXs(w) == {w[e].pos.x : e \in Pipes(w)}

MinX(w) == LET xs == PipeXs(w) IN CHOOSE x \in xs : \A y \in xs : x <= y

MaxX(w) == LET xs == PipeXs(w) IN CHOOSE x \in xs : \A y \in xs : x >= y

\* C3 (recycling monotonic spacing): in every state after bootstrap, also in
\* the middle of a frame, the pipes' x-positions are pairwise distinct and,
\* sorted, consecutive ones differ by exactly PIPE_GAP.
C3_Spacing ==
    phase = "run" =>
        LET xs == PipeXs(world)
            n == Cardinality(Pipes(world))
            least == MinX(world)
        IN  /\ Cardinality(xs) = n
            /\ xs = {least + k * PIPE_GAP * PosScale : k \in 0 .. n - 1}

\* every pipe has crossed the left border and been recycled at least once
C3_Witness == phase = "run" /\ everRecycled = PipeIds

\* C4 (same-tick stacking): when a reuse_pipes pass finds k >= 2 pipes left of
\* the border and R is the largest pipe x at the start of the pass, then at the
\* end of the pass the j-th of them in visiting order is at R + j * PIPE_GAP
\* (one each, so no two at the same x), for every visiting order and also when
\* the pipe holding R is itself left of the border.
C4_Stacking ==
    (phase = "run" /\ iterOrder # <<>> /\ Cardinality(Crossed(passStart)) >= 2)
        => LET crossed == Crossed(passStart)
               visited == SelectSeq(iterOrder, LAMBDA e : e \in crossed)
               R == MaxX(passStart)
           IN  /\ Len(visited) = Cardinality(crossed)
               /\ \A j \in 1 .. Len(visited) :
                     passEnd[visited[j]].pos.x = R + j * PIPE_GAP * PosScale

\* a pass has just recycled all the pipes, the one holding the maximum
\* included, and visited them in reverse spawn order
C4_Witness ==
    /\ phase = "run"
    /\ "reuse_pipes" \in done
    /\ Crossed(passStart) = PipeIds
    /\ iterOrder[1] = NumPipes
    /\ passEnd[NumPipes].pos.x = MaxX(passStart) + PIPE_GAP * PosScale

\* C5 (integration order): once the velocity step of a frame has run, every
\* entity that got no jump impulse and was not recycled in the frame has
\* velocity v0 + a*dt and position p0 + (v0 + a*dt)*dt, where v0 and p0 are its
\* velocity and position at the start of the frame.
C5_SemiImplicitEuler ==
    (phase = "run" /\ "apply_velocity" \in done) =>
        \A e \in DOMAIN world :
            (~(pressed /\ world[e].tag = "Player") /\ e \notin recycled) =>
                /\ world[e].vel.x = start[e].vel.x + world[e].acc.x * dt
                /\ world[e].vel.y = start[e].vel.y + world[e].acc.y * dt
                /\ world[e].vel.z = start[e].vel.z + world[e].acc.z * dt
                /\ world[e].pos.x = start[e].pos.x + (start[e].vel.x + world[e].acc.x * dt) * dt
                /\ world[e].pos.y = start[e].pos.y + (start[e].vel.y + world[e].acc.y * dt) * dt
                /\ world[e].pos.z = start[e].pos.z + (start[e].vel.z + world[e].acc.z * dt) * dt

\* the example: a = (0,-2000,0), v0 = 0, p0 = 0, dt = 0.1 s gives velocity
\* (0,-200,0) and position (0,-20,0)
C5_Witness ==
    /\ phase = "run"
    /\ "apply_velocity" \in done
    /\ ~pressed
    /\ dt = 1
    /\ start[PlayerId].vel = ZERO
    /\ start[PlayerId].pos = ZERO
    /\ world[PlayerId].vel = Vec3(0, (0 - 200) * VelScale, 0)
    /\ world[PlayerId].pos = Vec3(0, (0 - 20) * PosScale, 0)

\* C6 (tick ordering): in a frame where the jump trigger is active, once the
\* velocity step has run the player's velocity.y is UP_SPEED + GRAVITY*dt and
\* its position.y has advanced by (UP_SPEED + GRAVITY*dt)*dt, whatever its
\* velocity.y was before the frame.
C6_ImpulseIntegrated ==
    (phase = "run" /\ pressed /\ "apply_velocity" \in done) =>
        \A p \in Players(world) :
            /\ world[p].vel.y = UP_SPEED * VelScale + GRAVITY * dt
            /\ world[p].pos.y = start[p].pos.y + (UP_SPEED * VelScale + GRAVITY * dt) * dt

\* a jump frame of non-zero duration that the player entered while falling
C6_Witness ==
    /\ phase = "run"
    /\ pressed
    /\ "apply_velocity" \in done
    /\ dt > 0
    /\ start[PlayerId].vel.y < 0

\* C7 (impulse overwrite): in a frame where the jump trigger is active, after
\* jump has run and before the acceleration step, the player's velocity.y is
\* exactly UP_SPEED, whatever it was before.
C7_ImpulseOverwrite ==
    (phase = "run" /\ pressed /\ "jump" \in done /\ "apply_acceleration" \notin done) =>
        \A p \in Players(world) : world[p].vel.y = UP_SPEED * VelScale

\* the example: the player entered the frame with velocity.y = -300
C7_Witness ==
    /\ phase = "run"
    /\ pressed
    /\ "jump" \in done
    /\ "apply_acceleration" \notin done
    /\ start[PlayerId].vel.y = (0 - 300) * VelScale
    /\ world[PlayerId].vel.y = UP_SPEED * VelScale

\* C8 (player cardinality is fatal), as claimed: whenever jump or rotate runs
\* while the number of Player entities is not one, the run aborts.
C8_CardinalityFatal ==
    [][((RunsNow("jump") \/ RunsNow("rotate")) /\ Cardinality(Players(world)) # 1)
          => phase' = "aborted"]_vars

\* C9 (deferred construction), as claimed: after bootstrap no entity has a
\* visual that references an image not yet Loaded, and the pending list is
\* non-empty as long as some image is not Loaded.
C9_DeferredConstruction ==
    phase = "run" =>
        /\ \A e \in DOMAIN world : \A h \in world[e].visual : loadState[h] = "Loaded"
        /\ (\E h \in Images : loadState[h] # "Loaded") => bundles # <<>>

\* C10 (frame of the input mapper), as claimed: a run of jump changes neither
\* the player's velocity.x and velocity.z, nor its acceleration, position and
\* angle, nor anything of another entity; with the trigger inactive it changes
\* nothing.
C10_JumpFrame ==
    [][(RunsNow("jump") /\ phase' = "run") =>
          /\ DOMAIN world' = DOMAIN world
          /\ \A e \in DOMAIN world :
                IF world[e].tag = "Player"
                THEN /\ world'[e].vel.x = world[e].vel.x
                     /\ world'[e].vel.z = world[e].vel.z
                     /\ world'[e].acc = world[e].acc
                     /\ world'[e].pos = world[e].pos
                     /\ world'[e].angle = world[e].angle
                ELSE world'[e] = world[e]
          /\ (~pressed => world' = world)]_vars

\* the tilt, in micro-radians, that velocity.y = vy maps to
C11_Tilt(vy) ==
    IF vy * TiltPerVel > FRAC_PI_2_MICRO THEN FRAC_PI_2_MICRO
    ELSE IF vy * TiltPerVel < 0 - FRAC_PI_2_MICRO THEN 0 - FRAC_PI_2_MICRO
    ELSE vy * TiltPerVel

C11_AngleInv ==
    phase = "run" =>
        \A p \in Players(world) :
            /\ world[p].angle >= 0 - FRAC_PI_2_MICRO
            /\ world[p].angle <= FRAC_PI_2_MICRO
            /\ (ticks > 0 /\ done = Systems) =>
                  /\ world[p].angle = C11_Tilt(world[p].vel.y)
                  /\ world[p].vel.y = 10 * UP_SPEED * VelScale
                        => world[p].angle = FRAC_PI_2_MICRO
                  /\ world[p].vel.y = (0 - 10) * UP_SPEED * VelScale
                        => world[p].angle = 0 - FRAC_PI_2_MICRO

C11_RotateFrame ==
    RunsNow("rotate") =>
        /\ DOMAIN world' = DOMAIN world
        /\ \A e \in DOMAIN world :
              /\ world'[e].vel = world[e].vel
              /\ world'[e].acc = world[e].acc
              /\ world'[e].pos = world[e].pos
              /\ world[e].tag # "Player" => world'[e] = world[e]

\* C11 (orientation mapping): at the end of every frame each player's angle is
\* clamp(velocity.y / UP_SPEED * ANGLE_AMPLITUDE, -pi/2, pi/2) of the velocity
\* the frame's acceleration step produced; the angle is within [-pi/2, pi/2]
\* in every state, is pi/2 for velocity.y = 10*UP_SPEED and -pi/2 for
\* velocity.y = -10*UP_SPEED; a run of rotate changes no entity's velocity,
\* acceleration or position, and nothing of an entity that is not a player.
C11_Orientation == []C11_AngleInv /\ [][C11_RotateFrame]_vars

\* a frame of zero duration has ended with one player at 10*UP_SPEED tilted
\* to pi/2, one at -10*UP_SPEED tilted to -pi/2, and one in between
C11_Witness ==
    /\ phase = "run"
    /\ ticks > 0
    /\ done = Systems
    /\ Players(world) = {PlayerId, SecondPlayerId, ThirdPlayerId}
    /\ world[SecondPlayerId].vel.y = 10 * UP_SPEED * VelScale
    /\ world[SecondPlayerId].angle = FRAC_PI_2_MICRO
    /\ world[ThirdPlayerId].vel.y = (0 - 10) * UP_SPEED * VelScale
    /\ world[ThirdPlayerId].angle = 0 - FRAC_PI_2_MICRO
    /\ world[PlayerId].angle = (0 - 300) * VelScale * TiltPerVel

\* C12 (frame of the obstacle recycler): a reuse_pipes pass changes nothing
\* but the positions of the pipes whose x was below left_border when it began:
\* every entity keeps its velocity and acceleration, the players and the pipes
\* at x >= left_border (a pipe exactly on left_border included) are unchanged,
\* and the pass visits every pipe once, so the k repositioned pipes fill the k
\* places one gap apart behind the farthest pipe, one each.
C12_RecyclerFrame ==
    (phase = "run" /\ iterOrder # <<>>) =>
        /\ DOMAIN passEnd = DOMAIN passStart
        /\ Len(iterOrder) = Cardinality(Pipes(passStart))
        /\ {iterOrder[i] : i \in 1 .. Len(iterOrder)} = Pipes(passStart)
        /\ \A e \in DOMAIN passStart :
              /\ passEnd[e].vel = passStart[e].vel
              /\ passEnd[e].acc = passStart[e].acc
              /\ [passEnd[e] EXCEPT !.pos = passStart[e].pos] = passStart[e]
              /\ passStart[e].tag = "Player" => passEnd[e] = passStart[e]
              /\ (passStart[e].tag = "Pipe" /\ passStart[e].pos.x >= left_border)
                    => passEnd[e] = passStart[e]
              /\ passEnd[e].pos # passStart[e].pos
                    => (passStart[e].tag = "Pipe" /\ passStart[e].pos.x < left_border)
        /\ LET moved == {e \in Pipes(passStart) : passStart[e].pos.x < left_border}
               R == MaxX(passStart)
           IN  {passEnd[e].pos.x : e \in moved}
                   = {R + j * PIPE_GAP * PosScale : j \in 1 .. Cardinality(moved)}

\* a pass over a world with players has just moved the pipe left of the
\* border and kept the pipe that lay exactly on it
C12_Witness ==
    /\ phase = "run"
    /\ iterOrder # <<>>
    /\ world = passEnd
    /\ Players(world) # {}
    /\ \E e \in Pipes(passStart) :
          /\ passStart[e].pos.x = left_border
          /\ passEnd[e] = passStart[e]
    /\ \E e \in Pipes(passStart) :
          /\ passStart[e].pos.x < left_border
          /\ passEnd[e].pos.x > passStart[e].pos.x
          /\ passEnd[e].vel = passStart[e].vel

\* C13 (placement of the recycler in the frame): wherever reuse_pipes runs
\* among the other systems of a frame, in every state the pool has its ten
\* pipes at ten different x, each a whole number of gaps, nine at most, right
\* of the leftmost, and at the end of every frame the velocity
\* and acceleration of every entity are the values fixed by the state at the
\* start of the frame, its dt and its key state alone.
C13_PlacementFree ==
    phase = "run" =>
        /\ Cardinality(Pipes(world)) = NumPipes
        /\ Cardinality(PipeXs(world)) = NumPipes
        /\ LET least == MinX(world)
           IN  \A e \in Pipes(world) :
                   /\ (world[e].pos.x - least) % (PIPE_GAP * PosScale) = 0
                   /\ world[e].pos.x - least <= (NumPipes - 1) * PIPE_GAP * PosScale
        /\ (ticks > 0 /\ done = Systems) =>
              \A e \in DOMAIN world :
                  LET v0 == IF pressed /\ world[e].tag = "Player"
                            THEN Vec3(0, UP_SPEED * VelScale, 0)
                            ELSE start[e].vel
                  IN  /\ world[e].acc = start[e].acc
                      /\ world[e].vel = Vec3(v0.x + start[e].acc.x * dt,
                                             v0.y + start[e].acc.y * dt,
                                             v0.z + start[e].acc.z * dt)

\* a jump frame of non-zero duration has ended in which reuse_pipes ran
\* before every other system that writes velocities and recycled a pipe
C13_Witness ==
    /\ phase = "run"
    /\ ticks > 0
    /\ done = Systems
    /\ pressed
    /\ dt > 0
    /\ recycled # {}
    /\ passStart = start
    /\ world[PlayerId].vel # start[PlayerId].vel

\* C14 (fixed entity population): in every state after bootstrap there are
\* exactly one Player entity and exactly ten Pipe entities, the very entities
\* startup spawned; before the first frame the i-th pipe (i = 0..9) is at
\* x = right_border + i * PIPE_GAP.
C14_Population ==
    phase = "run" =>
        /\ Cardinality(Players(world)) = 1
        /\ Cardinality(Pipes(world)) = NumPipes
        /\ DOMAIN world = {PlayerId} \cup PipeIds
        /\ world[PlayerId].tag = "Player"
        /\ \A e \in PipeIds : world[e].tag = "Pipe"
        /\ ticks = 0 =>
              \A i \in 0 .. NumPipes - 1 :
                  world[i + 1].pos.x
                      = (WINDOW_WIDTH \div 2 + BORDER_MARGIN + i * PIPE_GAP) * PosScale

\* the last frame has ended, pipes have been recycled, and the population is
\* the one startup spawned
C14_Witness ==
    /\ phase = "run"
    /\ ticks = MaxTicks
    /\ done = Systems
    /\ everRecycled # {}
    /\ Players(world) = {PlayerId}
    /\ Pipes(world) = PipeIds

\* C15 (acceleration is constant per entity): in every state after bootstrap
\* the player's acceleration is (0, GRAVITY, 0) and every pipe's acceleration
\* is (-(PIPE_MAX_SPEED - PIPE_START_SPEED) / PIPE_TIME_TO_MAX, 0, 0), the
\* values given at spawn.
C15_ConstantAcceleration ==
    phase = "run" =>
        \A e \in DOMAIN world :
            IF world[e].tag = "Player"
            THEN world[e].acc = Vec3(0, GRAVITY, 0)
            ELSE /\ world[e].acc.x * PIPE_TIME_TO_MAX = PIPE_START_SPEED - PIPE_MAX_SPEED
                 /\ world[e].acc.y = 0
                 /\ world[e].acc.z = 0

\* the last frame, a jump frame of non-zero duration with a recycling pass,
\* has ended and gravity and the pipes' drift are still in place
C15_Witness ==
    /\ phase = "run"
    /\ ticks = MaxTicks
    /\ done = Systems
    /\ pressed
    /\ dt > 0
    /\ recycled # {}
    /\ world[PlayerId].acc.y = GRAVITY
    /\ \A e \in PipeIds : world[e].acc.x < 0

\* the ids of the bundles of list bs, in list order
C16_Ids(bs) == [i \in 1 .. Len(bs) |-> bs[i].id]

\* C16 (one pass of the loading gate): a post_loading pass calls on_load for
\* exactly the bundles of the pending list whose handles are all Loaded, once
\* each and in list order (adjacent ready bundles included), and leaves the
\* other bundles in the list in their original relative order.
C16_OnePass ==
    [][RunsNow("post_loading") =>
          LET ready(b) == \A h \in b.handles : loadState[h] = "Loaded"
              fired == SelectSeq(bundles, LAMBDA b : ready(b))
              kept == SelectSeq(bundles, LAMBDA b : ~ready(b))
          IN  /\ bundles' = kept
              /\ Len(invoked') = Len(invoked) + Len(fired)
              /\ SubSeq(invoked', 1, Len(invoked)) = invoked
              /\ C16_Ids(SubSeq(invoked', Len(invoked) + 1, Len(invoked'))) = C16_Ids(fired)
              /\ \A i \in 1 .. Len(fired) :
                    invoked'[Len(invoked) + i].handles = fired[i].handles]_vars

\* one pass has called two adjacent bundles that wait for images, the first
\* of the list first
C16_Witness ==
    /\ phase = "run"
    /\ bundles = <<>>
    /\ Len(invoked) = 2
    /\ invoked[1].id = 1
    /\ invoked[2].id = 2
    /\ invoked[1].tick = invoked[2].tick
    /\ invoked[1].handles # {}
    /\ invoked[2].handles # {}

\* C17 (recycling replaces the whole position): a pipe repositioned by a
\* reuse_pipes pass gets the y and z of the pipe it is placed behind, which is
\* the pipe farthest right at the start of the pass for the first pipe the
\* pass repositions and the pipe repositioned just before it for every other;
\* its own previous y and z are discarded.
C17_WholePosition ==
    (phase = "run" /\ iterOrder # <<>>) =>
        LET visited == SelectSeq(iterOrder, LAMBDA e : passStart[e].pos.x < left_border)
            rightmost == CHOOSE e \in Pipes(passStart) :
                             \A f \in Pipes(passStart) : passStart[f].pos.x <= passStart[e].pos.x
        IN  \A j \in 1 .. Len(visited) :
                LET behind == IF j = 1 THEN passStart[rightmost].pos
                              ELSE passEnd[visited[j - 1]].pos
                IN  /\ passEnd[visited[j]].pos.x = behind.x + PIPE_GAP * PosScale
                    /\ passEnd[visited[j]].pos.y = behind.y
                    /\ passEnd[visited[j]].pos.z = behind.z

\* a pass has just repositioned two pipes or more, and one of them has lost
\* the vertical offset it had
C17_Witness ==
    /\ phase = "run"
    /\ iterOrder # <<>>
    /\ world = passEnd
    /\ Cardinality(Crossed(passStart)) >= 2
    /\ \E e \in Crossed(passStart) : passEnd[e].pos.y # passStart[e].pos.y

\* C19 (the pipes share one kinematic state): in every state after bootstrap
\* all pipes have the same velocity and the same acceleration, and all pipes
\* not repositioned in the current frame have moved by the same vector since
\* the frame began, so the distances among them are the ones they had then
\* (every pipe is compared with one pipe chosen as the reference).
C19_SharedKinematics ==
    phase = "run" =>
        \A f \in Pipes(world) :
            LET e == CHOOSE p \in Pipes(world) : TRUE
                g == IF Pipes(world) \subseteq recycled THEN f
                     ELSE CHOOSE p \in Pipes(world) \ recycled : TRUE
            IN  /\ world[f].vel = world[e].vel
                /\ world[f].acc = world[e].acc
                /\ f \notin recycled =>
                      /\ world[f].pos.x - start[f].pos.x = world[g].pos.x - start[g].pos.x
                      /\ world[f].pos.y - start[f].pos.y = world[g].pos.y - start[g].pos.y
                      /\ world[f].pos.z - start[f].pos.z = world[g].pos.z - start[g].pos.z

\* in the last frame the pipes, faster than at spawn, have all been moved by
\* the velocity step, and the recycler has repositioned some but not all
C19_Witness ==
    /\ phase = "run"
    /\ ticks = MaxTicks
    /\ dt > 0
    /\ "apply_velocity" \in done
    /\ recycled # {}
    /\ recycled # PipeIds
    /\ \A e \in PipeIds : world[e].vel.x < (0 - PIPE_START_SPEED) * VelScale
    /\ \E e \in PipeIds \ recycled : world[e].pos.x < start[e].pos.x

\* the sum of the dt of the frames whose acceleration step has run
C20_T == IF "apply_acceleration" \in done THEN elapsed ELSE elapsed - dt

====
